---- MODULE Spec2Model ----
(***************************************************************************)
(* A model of ytprep.py (bait_yt_analyse): the identifier extractor, the   *)
(* caption flattener and the caching pipeline process_youtube.             *)
(*                                                                         *)
(* Text is modelled character by character: a string is a sequence of      *)
(* Unicode code points (38 is '&', 35 '#', 59 ';', 32 ' ', 10 '\n', 47 '/',*)
(* 63 '?', 61 '=', 58 ':', 97 'a', ...), so that trimming, entity decoding,*)
(* line splitting and URL parsing are computed, not assumed.               *)
(***************************************************************************)
EXTENDS Naturals, Sequences, FiniteSets, TLC

VARIABLES
    cues,       \* flattener harness: the caption texts handed to flatten_subtitles
    flat,       \* flattener harness: its result
    value,      \* extractor harness: the string handed to extract_youtube_id
    extracted,  \* extractor harness: its result
    shell,      \* command-line harness: the flags of ytprep_cli.py and its exit code
    urls,       \* the strings the callers of process_youtube pass as url
    infos,      \* the info dicts ydl.extract_info may return
    bodies,     \* the bodies requests.get may return for a caption URL
    cache,      \* the cache root: directory name -> its files (or no directory)
    pc,         \* where the current run of process_youtube stands
    args,       \* the arguments of the current (or last) run
    run,        \* the run's local variables
    result,     \* what the last finished run returned
    trace,      \* the external operations of the current (or last) run, in order
    last,       \* summary of the last finished run, with the cache it left
    before,     \* summary of the run that finished before the current (or last) one
    budget      \* runs started and cache I/O failures injected so far

----------------------------------------------------------------------------
(* Python str primitives used by the source.                               *)

\* str.isspace() of one code point (what str.strip() removes).
IsSpace(c) ==
    \/ c \in {9, 10, 11, 12, 13, 28, 29, 30, 31, 32, 133, 160, 5760}
    \/ c \in 8192..8202
    \/ c \in {8232, 8233, 8239, 8287, 12288}

RECURSIVE lstrip(_)
lstrip(s) == IF s # <<>> /\ IsSpace(Head(s)) THEN lstrip(Tail(s)) ELSE s

RECURSIVE rstrip(_)
rstrip(s) ==
    IF s # <<>> /\ IsSpace(s[Len(s)]) THEN rstrip(SubSeq(s, 1, Len(s) - 1)) ELSE s

\* str.strip(): leading and trailing whitespace removed.
strip(s) == rstrip(lstrip(s))

\* The code points str.splitlines() breaks a line at ("\r\n" counts once).
IsLineBreak(c) == c \in {10, 11, 12, 13, 28, 29, 30, 133, 8232, 8233}

\* Index of the first line break of s at or after i, Len(s) + 1 if none.
RECURSIVE NextBreak(_, _)
NextBreak(s, i) ==
    IF i > Len(s) \/ IsLineBreak(s[i]) THEN i ELSE NextBreak(s, i + 1)

\* str.splitlines(): the lines of s without their terminators; no trailing
\* empty line after a final terminator, and no line at all for "".
RECURSIVE splitlines(_)
splitlines(s) ==
    IF s = <<>> THEN <<>>
    ELSE LET b == NextBreak(s, 1)
             w == IF b < Len(s) /\ s[b] = 13 /\ s[b + 1] = 10 THEN 2 ELSE 1
         IN  IF b > Len(s) THEN <<s>>
             ELSE <<SubSeq(s, 1, b - 1)>> \o splitlines(SubSeq(s, b + w, Len(s)))

\* '\n'.join(lines)
RECURSIVE join_nl(_)
join_nl(lines) ==
    IF lines = <<>> THEN <<>>
    ELSE IF Len(lines) = 1 THEN lines[1]
    ELSE lines[1] \o <<10>> \o join_nl(Tail(lines))

----------------------------------------------------------------------------
(* html.unescape, as CPython implements it: the pattern                    *)
(*   &(#[0-9]+;?|#[xX][0-9a-fA-F]+;?|[^\t\n\f <&#;]{1,32};?)               *)
(* is replaced left to right by _replace_charref of its group.             *)

IsDigit(c) == c \in 48..57
IsHexDigit(c) == c \in 48..57 \/ c \in 65..70 \/ c \in 97..102
IsNameChar(c) == c \notin {9, 10, 12, 32, 60, 38, 35, 59}

\* Length of the longest run of characters satisfying the class that starts
\* at s[i], at most max long.
RECURSIVE DigitRun(_, _)
DigitRun(s, i) == IF i <= Len(s) /\ IsDigit(s[i]) THEN 1 + DigitRun(s, i + 1) ELSE 0

RECURSIVE HexRun(_, _)
HexRun(s, i) == IF i <= Len(s) /\ IsHexDigit(s[i]) THEN 1 + HexRun(s, i + 1) ELSE 0

RECURSIVE NameRun(_, _, _)
NameRun(s, i, max) ==
    IF max > 0 /\ i <= Len(s) /\ IsNameChar(s[i])
    THEN 1 + NameRun(s, i + 1, max - 1) ELSE 0

\* 1 when s[i] is the optional ';' closing a reference, else 0.
Semi(s, i) == IF i <= Len(s) /\ s[i] = 59 THEN 1 ELSE 0

\* Length of the pattern's group 1 matched right after the '&' at s[i];
\* 0 when the pattern does not match there.
MatchLen(s, i) ==
    IF i + 1 <= Len(s) /\ s[i + 1] = 35
    THEN LET d == DigitRun(s, i + 2)
             h == IF i + 2 <= Len(s) /\ s[i + 2] \in {120, 88}
                  THEN HexRun(s, i + 3) ELSE 0
         IN  IF d > 0 THEN 1 + d + Semi(s, i + 2 + d)
             ELSE IF h > 0 THEN 2 + h + Semi(s, i + 3 + h)
             ELSE 0
    ELSE LET n == NameRun(s, i + 1, 32)
         IN  IF n > 0 THEN n + Semi(s, i + 1 + n) ELSE 0

HexVal(c) == IF c \in 48..57 THEN c - 48 ELSE IF c \in 65..70 THEN c - 55 ELSE c - 87

\* int(digits, base)
RECURSIVE IntOf(_, _)
IntOf(digits, base) ==
    IF digits = <<>> THEN 0
    ELSE IntOf(SubSeq(digits, 1, Len(digits) - 1), base) * base
         + HexVal(digits[Len(digits)])

\* html._invalid_charrefs: references browsers remap (0, 13, and 128..159
\* read as windows-1252).
InvalidCharrefs ==
    (0 :> 65533) @@ (13 :> 13) @@ (128 :> 8364) @@ (129 :> 129) @@ (130 :> 8218)
    @@ (131 :> 402) @@ (132 :> 8222) @@ (133 :> 8230) @@ (134 :> 8224)
    @@ (135 :> 8225) @@ (136 :> 710) @@ (137 :> 8240) @@ (138 :> 352)
    @@ (139 :> 8249) @@ (140 :> 338) @@ (141 :> 141) @@ (142 :> 381)
    @@ (143 :> 143) @@ (144 :> 144) @@ (145 :> 8216) @@ (146 :> 8217)
    @@ (147 :> 8220) @@ (148 :> 8221) @@ (149 :> 8226) @@ (150 :> 8211)
    @@ (151 :> 8212) @@ (152 :> 732) @@ (153 :> 8482) @@ (154 :> 353)
    @@ (155 :> 8250) @@ (156 :> 339) @@ (157 :> 157) @@ (158 :> 382)
    @@ (159 :> 376)

\* html._invalid_codepoints: references that decode to nothing.
IsInvalidCodepoint(n) ==
    \/ n \in 1..8 \/ n = 11 \/ n \in 14..31 \/ n \in 127..159
    \/ n \in 64976..65007
    \/ (n % 65536) \in {65534, 65535}

\* _replace_charref for a numeric reference with value num.
NumericRef(num) ==
    IF num \in DOMAIN InvalidCharrefs THEN <<InvalidCharrefs[num]>>
    ELSE IF num \in 55296..57343 \/ num > 1114111 THEN <<65533>>
    ELSE IF IsInvalidCodepoint(num) THEN <<>>
    ELSE <<num>>

\* html.entities.html5 restricted to the names that can be written with the
\* characters of the modelled captions (a, m, p and digits): amp, amp;, ap;,
\* map;, mp;, pm;.
html5 ==
    (<<97, 109, 112>> :> <<38>>) @@ (<<97, 109, 112, 59>> :> <<38>>)
    @@ (<<97, 112, 59>> :> <<8776>>) @@ (<<109, 97, 112, 59>> :> <<8614>>)
    @@ (<<109, 112, 59>> :> <<8723>>) @@ (<<112, 109, 59>> :> <<177>>)

\* The named-reference fallback: the longest proper prefix of the name (of
\* length len(s)-1 down to 2) that is an entity, followed by the rest.
RECURSIVE PrefixRef(_, _)
PrefixRef(s, x) ==
    IF x < 2 THEN <<38>> \o s
    ELSE IF SubSeq(s, 1, x) \in DOMAIN html5
         THEN html5[SubSeq(s, 1, x)] \o SubSeq(s, x + 1, Len(s))
         ELSE PrefixRef(s, x - 1)

\* rstrip(';') of a numeric reference's digits
Digits(s) == IF s # <<>> /\ s[Len(s)] = 59 THEN SubSeq(s, 1, Len(s) - 1) ELSE s

\* _replace_charref(group 1)
replace_charref(s) ==
    IF s[1] = 35
    THEN IF s[2] \in {120, 88}
         THEN NumericRef(IntOf(Digits(SubSeq(s, 3, Len(s))), 16))
         ELSE NumericRef(IntOf(Digits(SubSeq(s, 2, Len(s))), 10))
    ELSE IF s \in DOMAIN html5 THEN html5[s]
    ELSE PrefixRef(s, Len(s) - 1)

RECURSIVE SubCharrefs(_, _)
SubCharrefs(s, i) ==
    IF i > Len(s) THEN <<>>
    ELSE IF s[i] # 38 THEN <<s[i]>> \o SubCharrefs(s, i + 1)
    ELSE LET m == MatchLen(s, i)
         IN  IF m = 0 THEN <<38>> \o SubCharrefs(s, i + 1)
             ELSE replace_charref(SubSeq(s, i + 1, i + m))
                  \o SubCharrefs(s, i + m + 1)

\* html.unescape(s)
unescape(s) == SubCharrefs(s, 1)

----------------------------------------------------------------------------
(* flatten_subtitles (ytprep.py) and flatten_vtt (flatten_vtt.py): the same *)
(* loop. captions is the sequence of caption.text values webvtt.read gives. *)

\* The inner loop as it would be without the comparison to prev_line.
RECURSIVE FlattenLinesKeepingRepeats(_, _)
FlattenLinesKeepingRepeats(ls, st) ==
    IF ls = <<>> THEN st
    ELSE IF strip(Head(ls)) # <<>>
    THEN FlattenLinesKeepingRepeats(Tail(ls),
             [lines |-> Append(st.lines, unescape(strip(Head(ls)))),
              prev |-> <<unescape(strip(Head(ls)))>>])
    ELSE FlattenLinesKeepingRepeats(Tail(ls), st)

\* The inner loop over one caption's lines: st = [lines, prev], where prev is
\* <<>> for None and <<line>> for a previous line.
RECURSIVE FlattenLines(_, _)
FlattenLines(ls, st) ==
    IF ls = <<>> THEN st
    ELSE LET stripped_line == strip(Head(ls))
             decoded_line == unescape(stripped_line)
         IN  IF stripped_line # <<>> /\ <<decoded_line>> # st.prev
             THEN FlattenLines(Tail(ls), [lines |-> Append(st.lines, decoded_line),
                                          prev |-> <<decoded_line>>])
             ELSE FlattenLines(Tail(ls), st)

\* The outer loop over the captions.
RECURSIVE FlattenCaptions(_, _)
FlattenCaptions(captions, st) ==
    IF captions = <<>> THEN st
    ELSE FlattenCaptions(Tail(captions),
                         FlattenLines(splitlines(Head(captions)), st))

\* flattened_lines when the loops end.
flattened_lines(captions) ==
    FlattenCaptions(captions, [lines |-> <<>>, prev |-> <<>>]).lines

\* flatten_subtitles' return value: '\n'.join(flattened_lines).
flatten_subtitles(captions) == join_nl(flattened_lines(captions))

----------------------------------------------------------------------------
(* urllib.parse.urlparse and parse_qs, as far as extract_youtube_id reads   *)
(* them: scheme, netloc, path and query, and the hostname property. Not    *)
(* modelled: bracketed (IPv6) hosts, which make no modelled input.         *)

\* Index of the first element of s at or after i that is in set cs,
\* Len(s) + 1 if none (str.find with the end as "not found").
RECURSIVE FindAny(_, _, _)
FindAny(s, cs, i) ==
    IF i > Len(s) \/ s[i] \in cs THEN i ELSE FindAny(s, cs, i + 1)

\* Index of the last element of s at or before i that is in cs, 0 if none.
RECURSIVE RFindAny(_, _, _)
RFindAny(s, cs, i) ==
    IF i < 1 \/ s[i] \in cs THEN i ELSE RFindAny(s, cs, i - 1)

From(s, i) == SubSeq(s, i, Len(s))
Upto(s, i) == SubSeq(s, 1, i)

RECURSIVE Without(_, _)
Without(s, cs) ==
    IF s = <<>> THEN <<>>
    ELSE IF Head(s) \in cs THEN Without(Tail(s), cs)
    ELSE <<Head(s)>> \o Without(Tail(s), cs)

\* str.lstrip(chars)
RECURSIVE lstrip_chars(_, _)
lstrip_chars(s, cs) ==
    IF s # <<>> /\ Head(s) \in cs THEN lstrip_chars(Tail(s), cs) ELSE s

IsAsciiAlpha(c) == c \in 65..90 \/ c \in 97..122
IsAsciiAlnum(c) == IsAsciiAlpha(c) \/ c \in 48..57
\* urllib.parse.scheme_chars: letters, digits, '+', '-', '.'
IsSchemeChar(c) == IsAsciiAlnum(c) \/ c \in {43, 45, 46}

\* str.lower() on ASCII letters
lower(s) == [i \in 1..Len(s) |-> IF s[i] \in 65..90 THEN s[i] + 32 ELSE s[i]]

\* urllib.parse.uses_params: '', ftp, hdl, prospero, http, imap, https, shttp,
\* rtsp, rtspu, sip, sips, mms, sftp, tel
uses_params ==
    { <<>>, <<102, 116, 112>>, <<104, 100, 108>>, <<112, 114, 111, 115,
      112, 101, 114, 111>>, <<104, 116, 116, 112>>, <<105, 109, 97, 112>>,
      <<104, 116, 116, 112, 115>>, <<115, 104, 116, 116, 112>>, <<114,
      116, 115, 112>>, <<114, 116, 115, 112, 117>>, <<115, 105, 112>>,
      <<115, 105, 112, 115>>, <<109, 109, 115>>, <<115, 102, 116, 112>>,
      <<116, 101, 108>> }

\* urlparse, last step (_splitparams): the path ends at the first ';' of its
\* last segment when the scheme takes parameters.
SplitParams(scheme, netloc, url, query) ==
    [scheme |-> scheme, netloc |-> netloc, query |-> query,
     path |-> IF scheme \in uses_params
              THEN Upto(url, FindAny(url, {59}, RFindAny(url, {47}, Len(url)) + 1) - 1)
              ELSE url]

\* urlsplit: the query starts after the first '?' of what precedes the '#'.
SplitQuery(scheme, netloc, url, qmark) ==
    SplitParams(scheme, netloc, Upto(url, qmark - 1), From(url, qmark + 1))

SplitFragment(scheme, netloc, url, hash) ==
    SplitQuery(scheme, netloc, Upto(url, hash - 1),
               FindAny(Upto(url, hash - 1), {63}, 1))

\* urlsplit (_splitnetloc): after "//" the netloc runs to the first '/', '?'
\* or '#', found at delim.
SplitNetloc(scheme, url, delim) ==
    IF Len(url) >= 2 /\ url[1] = 47 /\ url[2] = 47
    THEN SplitFragment(scheme, SubSeq(url, 3, delim - 1), From(url, delim),
                       FindAny(From(url, delim), {35}, 1))
    ELSE SplitFragment(scheme, <<>>, url, FindAny(url, {35}, 1))

\* urlsplit: the scheme is what precedes the first ':' (found at colon), when
\* that is a letter followed by scheme characters.
SplitScheme(url, colon) ==
    IF /\ colon <= Len(url) /\ colon > 1 /\ IsAsciiAlpha(url[1])
       /\ \A i \in 1..(colon - 1) : IsSchemeChar(url[i])
    THEN SplitNetloc(lower(Upto(url, colon - 1)), From(url, colon + 1),
                     FindAny(From(url, colon + 1), {47, 63, 35}, 3))
    ELSE SplitNetloc(<<>>, url, FindAny(url, {47, 63, 35}, 3))

\* urlsplit, first step: leading C0 controls and spaces stripped, then tab,
\* CR and LF removed.
Sanitized(url) == Without(lstrip_chars(url, 0..32), {9, 10, 13})

\* urlparse(url): [scheme, netloc, path, query].
urlparse(url) == SplitScheme(Sanitized(url), FindAny(Sanitized(url), {58}, 1))

\* ParseResult.hostname: the netloc after the last '@', up to the first ':',
\* lower-cased; <<>> stands for None.
hostname(netloc) ==
    LET hostinfo == From(netloc, RFindAny(netloc, {64}, Len(netloc)) + 1)
    IN  lower(Upto(hostinfo, FindAny(hostinfo, {58}, 1) - 1))

\* str.split(sep) for a one-character separator
RECURSIVE split(_, _)
split(s, sep) ==
    LET i == FindAny(s, {sep}, 1)
    IN  IF i > Len(s) THEN <<s>>
        ELSE <<Upto(s, i - 1)>> \o split(From(s, i + 1), sep)

\* urllib.parse.unquote after '+' became ' ': %hh is the byte hh (a byte
\* above 127 is shown as U+FFFD; multi-byte sequences are not modelled).
RECURSIVE unquote_plus(_)
unquote_plus(s) ==
    IF s = <<>> THEN <<>>
    ELSE IF Head(s) = 43 THEN <<32>> \o unquote_plus(Tail(s))
    ELSE IF Head(s) = 37 /\ Len(s) >= 3 /\ IsHexDigit(s[2]) /\ IsHexDigit(s[3])
         THEN LET b == 16 * HexVal(s[2]) + HexVal(s[3])
              IN  <<IF b > 127 THEN 65533 ELSE b>> \o unquote_plus(From(s, 4))
    ELSE <<Head(s)>> \o unquote_plus(Tail(s))

\* parse_qs(query).get(name, [None])[0]: the first non-blank value of the
\* field, as <<value>>, or <<>> for None.
RECURSIVE FirstValue(_, _)
FirstValue(pairs, name) ==
    IF pairs = <<>> THEN <<>>
    ELSE LET nv == Head(pairs)
             eq == FindAny(nv, {61}, 1)
         IN  IF eq <= Len(nv) /\ eq < Len(nv)
                /\ unquote_plus(Upto(nv, eq - 1)) = name
             THEN <<unquote_plus(From(nv, eq + 1))>>
             ELSE FirstValue(Tail(pairs), name)

parse_qs_get(query, name) == FirstValue(split(query, 38), name)

----------------------------------------------------------------------------
(* extract_youtube_id                                                      *)

\* "www.youtube.com"
S_www_youtube_com ==
    <<119, 119, 119, 46, 121, 111, 117, 116, 117, 98, 101, 46, 99, 111,
      109>>
\* "youtube.com"
S_youtube_com ==
    <<121, 111, 117, 116, 117, 98, 101, 46, 99, 111, 109>>
\* "youtu.be"
S_youtu_be ==
    <<121, 111, 117, 116, 117, 46, 98, 101>>
\* "/watch"
S_watch ==
    <<47, 119, 97, 116, 99, 104>>
\* "/embed/"
S_embed ==
    <<47, 101, 109, 98, 101, 100, 47>>
\* "/shorts/"
S_shorts ==
    <<47, 115, 104, 111, 114, 116, 115, 47>>
\* "v"
S_v ==
    <<118>>

\* [A-Za-z0-9_-]
IsIdChar(c) == IsAsciiAlnum(c) \/ c \in {95, 45}

\* re.fullmatch(r"[A-Za-z0-9_-]{11}", value): 11 is the identifier length.
IsBareId(s) == Len(s) = 11 /\ \A i \in 1..Len(s) : IsIdChar(s[i])

IsPrefix(p, s) == Len(p) <= Len(s) /\ Upto(s, Len(p)) = p

\* The match as it would be with the pattern r"^/(embed)/([^/?#&]+)".
path_id_match_embed_only(path) ==
    IF IsPrefix(S_embed, path)
       /\ FindAny(path, {47, 63, 35, 38}, Len(S_embed) + 1) > Len(S_embed) + 1
    THEN <<SubSeq(path, Len(S_embed) + 1,
                  FindAny(path, {47, 63, 35, 38}, Len(S_embed) + 1) - 1)>>
    ELSE <<>>

\* re.match(r"^/(embed|shorts)/([^/?#&]+)", path): <<group 2>>, or <<>> when
\* there is no match.
path_id_match(path) ==
    LET pre == IF IsPrefix(S_embed, path) THEN Len(S_embed)
               ELSE IF IsPrefix(S_shorts, path) THEN Len(S_shorts) ELSE 0
        stop == FindAny(path, {47, 63, 35, 38}, pre + 1)
    IN  IF pre > 0 /\ stop > pre + 1 THEN <<SubSeq(path, pre + 1, stop - 1)>>
        ELSE <<>>

\* A returned identifier / the None result.
Some(id) == [none |-> FALSE, id |-> id]
None == [none |-> TRUE, id |-> <<>>]
OfOptional(opt) == IF opt = <<>> THEN None ELSE Some(opt[1])

\* Lines 61-69, with the URL parsed and its hostname at hand.
id_of_parsed(parsed, host) ==
    IF host \in {S_www_youtube_com, S_youtube_com} /\ parsed.path = S_watch
    THEN OfOptional(parse_qs_get(parsed.query, S_v))
    ELSE IF host \in {S_www_youtube_com, S_youtube_com}
    THEN OfOptional(path_id_match(parsed.path))
    ELSE IF host = S_youtu_be THEN Some(lstrip_chars(parsed.path, {47}))
    ELSE None

id_of_url(parsed) == id_of_parsed(parsed, hostname(parsed.netloc))

\* Lines 57-60, with the value stripped.
id_of_stripped(v) == IF IsBareId(v) THEN Some(v) ELSE id_of_url(urlparse(v))

extract_youtube_id(v) == IF v = <<>> THEN None ELSE id_of_stripped(strip(v))

----------------------------------------------------------------------------
(* The cache: the root directory and, under it, one directory per video     *)
(* identifier. A directory is named by its path relative to the root.      *)

FileNames ==
    { "metadata.json", "subtitles_raw.vtt", "subtitles_flat.txt", "prompt.txt",
      "title.txt", "uploader.txt", "channel.txt", "description.txt",
      "final.txt", "gemini_response.txt" }

\* A file slot: absent, written completely ("ok"), or left truncated by a
\* write that failed after open(..., 'w') ("torn").
Absent == [st |-> "absent", data |-> <<>>]
Written(content) == [st |-> "ok", data |-> <<content>>]
Torn == [st |-> "torn", data |-> <<>>]

NoDir == [exists |-> FALSE, files |-> [f \in FileNames |-> Absent]]
EmptyDir == [exists |-> TRUE, files |-> [f \in FileNames |-> Absent]]

\* The cache root itself: the empty relative path.
Root == <<>>

\* Path(base_cache_dir) / video_id: the directory is named by the identifier;
\* for the empty identifier the path is the cache root.
cache_dir_of(video_id) == video_id

\* rmtree as it would be if it deleted nothing.
rmtree_nothing(c, dir) == c

\* shutil.rmtree(cache_dir): the directory goes with all that is under it.
rmtree(c, dir) ==
    IF dir = Root THEN [d \in DOMAIN c |-> NoDir] ELSE [c EXCEPT ![dir] = NoDir]

\* cache_dir.mkdir(parents=True, exist_ok=True): the directory and the root
\* above it are created unless they exist.
mkdir(c, dir) ==
    [d \in DOMAIN c |->
        IF d \in {dir, Root} /\ ~c[d].exists THEN EmptyDir ELSE c[d]]

\* open(path, 'w') followed by a complete write
write_file(c, dir, name, content) ==
    [c EXCEPT ![dir].files[name] = Written(content)]

\* open(path, 'w') succeeded and the write did not complete
tear_file(c, dir, name) == [c EXCEPT ![dir].files[name] = Torn]

Present(c, dir) == {f \in FileNames : c[dir].files[f].st # "absent"}

----------------------------------------------------------------------------
(* The remote services, as sets of what a call may return.                 *)

\* One entry of a caption track list of yt-dlp's info dict.
Entry(ext, url) == [ext |-> ext, url |-> url]

\* info dicts ydl.extract_info may return. subtitles / automatic_captions
\* hold <<>> when the dict has no 'en' key and <<list>> when it has one.
Infos ==
    { [title |-> "T", uploader |-> "U", channel |-> "C", description |-> "D",
       subtitles |-> <<>>, automatic_captions |-> <<>>],
      [title |-> "T", uploader |-> "", channel |-> "C", description |-> "",
       subtitles |-> << <<Entry("vtt", "human.vtt")>> >>,
       automatic_captions |-> <<>>],
      [title |-> "T", uploader |-> "U", channel |-> "", description |-> "D",
       subtitles |-> <<>>,
       automatic_captions |-> << <<Entry("json3", "auto.json3"),
                                   Entry("vtt", "auto.vtt")>> >>] }

\* info dicts with an 'en' key under both subtitles and automatic_captions:
\* an empty human list beside an automatic track, a human track with a vtt
\* entry after another one, and a human track without a vtt entry.
TrackInfos ==
    { [title |-> "T", uploader |-> "U", channel |-> "C", description |-> "D",
       subtitles |-> << <<>> >>,
       automatic_captions |-> << <<Entry("vtt", "auto.vtt")>> >>],
      [title |-> "T", uploader |-> "U", channel |-> "C", description |-> "D",
       subtitles |-> << <<Entry("json3", "human.json3"),
                          Entry("vtt", "human.vtt")>> >>,
       automatic_captions |-> << <<Entry("vtt", "auto.vtt")>> >>],
      [title |-> "T", uploader |-> "", channel |-> "", description |-> "",
       subtitles |-> << <<Entry("json3", "human.json3"),
                          Entry("srv1", "human.srv1")>> >>,
       automatic_captions |-> << <<Entry("vtt", "auto.vtt")>> >>] }

\* Bodies requests.get(url).text may hold: a caption file webvtt can parse
\* (with the caption texts it parses to) or one it cannot.
\* "&amp;" / "&" and " a " / "&#1;"
Payloads ==
    { [parses |-> TRUE, captions |-> << <<38, 97, 109, 112, 59>>, <<38>> >>],
      [parses |-> TRUE, captions |-> << <<32, 97, 32, 10, 38, 35, 49, 59>> >>],
      [parses |-> FALSE, captions |-> <<>>] }

\* Texts query_gemini may return.
GeminiTexts == {"R1", "R2"}

\* The prompt argument, None (<<>>) or an override, and prompt.txt beside
\* the script, absent (<<>>) or present with its text. The runs explored
\* pass no override and find no prompt.txt.
Prompts == {<<>>}
PromptFiles == {<<>>}
BuiltinPrompt == "You are given the transcript, title, uploader, channel, ..."

----------------------------------------------------------------------------
(* download_metadata_and_subtitles: the metadata built from an info dict.  *)

\* max(entries, key=lambda x: x.get('ext', 'vtt') == 'vtt'): the first entry
\* whose key is the largest.
RECURSIVE FirstVtt(_)
FirstVtt(entries) ==
    IF entries = <<>> THEN <<>>
    ELSE IF Head(entries).ext = "vtt" THEN <<Head(entries)>>
    ELSE FirstVtt(Tail(entries))

\* The choice as it would be if the first entry were always taken.
best_entry_first(entries) == entries[1]

best_entry(entries) ==
    IF FirstVtt(entries) # <<>> THEN FirstVtt(entries)[1] ELSE entries[1]

CaptionRef(entry, type) == [url |-> entry.url, ext |-> entry.ext, type |-> type]

\* metadata['subtitles']: <<>> for the empty dict, else <<reference>>.
choose_subtitles(info) ==
    IF info.subtitles # <<>>
    THEN IF Len(info.subtitles[1]) > 0
         THEN <<CaptionRef(best_entry(info.subtitles[1]), "human")>>
         ELSE <<>>
    ELSE IF info.automatic_captions # <<>>
    THEN IF Len(info.automatic_captions[1]) > 0
         THEN <<CaptionRef(best_entry(info.automatic_captions[1]), "auto")>>
         ELSE <<>>
    ELSE <<>>

build_metadata(video_id, info) ==
    [video_id |-> video_id, title |-> info.title, uploader |-> info.uploader,
     channel |-> info.channel, description |-> info.description,
     subtitles |-> choose_subtitles(info)]

----------------------------------------------------------------------------
(* generate_final_txt: the lines of final.txt, each a label and a text.    *)

Line(label, str, text) == [label |-> label, str |-> str, text |-> text]

generate_final_txt(metadata, flattened_subtitles, subtitle_type, prompt_content) ==
    <<Line("", prompt_content, <<>>), Line("", "", <<>>),
      Line("Title: ", metadata.title, <<>>)>>
    \o (IF metadata.uploader # ""
        THEN <<Line("Uploader: ", metadata.uploader, <<>>)>> ELSE <<>>)
    \o (IF metadata.channel # ""
        THEN <<Line("Channel: ", metadata.channel, <<>>)>> ELSE <<>>)
    \o <<Line("Description:", "", <<>>), Line("", metadata.description, <<>>),
         Line("", "", <<>>),
         Line("Subtitles (", subtitle_type, <<>>),
         Line("", "", flattened_subtitles)>>

----------------------------------------------------------------------------
(* process_youtube, one run at a time, step by step.                       *)

\* "dQw4w9WgXcQ"
S_canonical_id ==
    <<100, 81, 119, 52, 119, 57, 87, 103, 88, 99, 81>>
\* "not a url"
S_not_a_url ==
    <<110, 111, 116, 32, 97, 32, 117, 114, 108>>

\* "https://youtu.be/"
P_short_link ==
    <<104, 116, 116, 112, 115, 58, 47, 47, 121, 111, 117, 116, 117, 46, 98,
      101, 47>>

\* The strings process_youtube is called with: an identifier and a string
\* that is none; or, for the runs on every accepted string, an identifier and
\* the short link without a path.
PipelineUrls == {S_canonical_id, S_not_a_url}
AcceptedUrls == {S_canonical_id, P_short_link}

VideoIds ==
    {extract_youtube_id(u).id :
        u \in {w \in PipelineUrls \cup AcceptedUrls : ~extract_youtube_id(w).none}}
CacheDirs == {Root} \cup {cache_dir_of(id) : id \in VideoIds}

harness == <<cues, flat, value, extracted, shell, urls, infos, bodies>>
\* The harness variables before the function under study has been applied.
NotFlattened == [done |-> FALSE, lines |-> <<>>, text |-> <<>>]
NotExtracted == [done |-> FALSE, id |-> <<>>, none |-> TRUE, raised |-> FALSE]
NotExited == [done |-> FALSE, verbose |-> FALSE, final |-> "ok", code |-> 0]
vars ==
    <<cues, flat, value, extracted, shell, urls, infos, bodies, cache, pc,
      args, run, result, trace, last, before, budget>>

\* The model explores at most MaxRuns runs of process_youtube and lets at
\* most MaxFaults operations on the cache (a write, a read, rmtree, mkdir) fail.
MaxRuns == 2
MaxFaults == 1

MayFail == budget.faults < MaxFaults
Failed == budget' = [budget EXCEPT !.faults = @ + 1]

\* gemini_response: "" before the call, the returned text, or the diagnostic
\* f"Error querying Gemini: {str(e)}".
NoResponse == [kind |-> "empty", text |-> ""]
Generated(text) == [kind |-> "text", text |-> text]
Diagnostic(e) == [kind |-> "Error querying Gemini: ", text |-> e]

NoArgs == [url |-> <<>>, prompt |-> <<>>, force |-> FALSE, query_gemini_llm |-> FALSE]
NoLocals ==
    [video_id |-> <<>>, info |-> <<>>, metadata |-> <<>>,
     flattened_subtitles |-> <<>>,
     prompt_content |-> "", final_content |-> <<>>, gemini_response |-> NoResponse]
NoResult ==
    [status |-> "none", video_id |-> <<>>, cache_dir |-> <<>>, files |-> {},
     gemini_response |-> <<>>, error |-> ""]
NoRun == [status |-> "none", args |-> NoArgs, cache |-> [d \in CacheDirs |-> NoDir]]

\* One external operation of a run: a cache operation on a file (or on the
\* directory, file ""), or a network call.
Op(op, file, outcome) == [op |-> op, file |-> file, outcome |-> outcome]

\* Before the first run: an empty cache root.
PipelineIdle ==
    /\ urls = PipelineUrls
    /\ infos = Infos
    /\ bodies = Payloads
    /\ cache = [d \in CacheDirs |-> NoDir]
    /\ pc = "idle"
    /\ args = NoArgs
    /\ run = NoLocals
    /\ result = NoResult
    /\ trace = <<>>
    /\ last = NoRun
    /\ before = NoRun
    /\ budget = [runs |-> 0, faults |-> 0]

Init ==
    /\ cues = <<>> /\ flat = NotFlattened
    /\ value = <<>> /\ extracted = NotExtracted
    /\ shell = NotExited
    /\ PipelineIdle

\* The error outcome as it would be if it named the video.
ErrorResultNamingVideo(msg) ==
    [status |-> "error", video_id |-> run.video_id, cache_dir |-> <<>>,
     files |-> {}, gemini_response |-> <<>>, error |-> msg]

\* Both except clauses of process_youtube: the error outcome.
ErrorResult(msg) ==
    [status |-> "error", video_id |-> <<>>, cache_dir |-> <<>>, files |-> {},
     gemini_response |-> <<>>, error |-> msg]

\* The run goes on at next, with the cache as c, the trace as tr and the
\* locals as loc.
Continue(next, c, tr, loc) ==
    /\ pc' = next /\ cache' = c /\ trace' = tr /\ run' = loc
    /\ UNCHANGED <<args, result, last, before, harness>>

\* The run returns res, leaving the cache as c.
Return(res, c, tr, loc) ==
    /\ pc' = "idle" /\ cache' = c /\ trace' = tr /\ run' = loc
    /\ result' = res
    /\ last' = [status |-> res.status, args |-> args, cache |-> c]
    /\ UNCHANGED <<args, before, harness>>

\* An exception escapes to process_youtube's except clauses.
Raise(msg, c, tr) == Return(ErrorResult(msg), c, tr, run)

NoFault == UNCHANGED budget

Dir == cache_dir_of(run.video_id)

\* save_text_file(content, cache_dir / name) and what follows it: the file is
\* written and the run goes on at next with locals loc, or the write fails
\* (before or after the file was truncated) and the exception escapes.
Save(name, content, next, loc) ==
    \/ /\ Continue(next, write_file(cache, Dir, name, content),
                   Append(trace, Op("write", name, "ok")), loc)
       /\ NoFault
    \/ /\ MayFail /\ Failed
       /\ Raise("OSError", cache, Append(trace, Op("write", name, "failed")))
    \/ /\ MayFail /\ Failed
       /\ Raise("OSError", tear_file(cache, Dir, name),
                Append(trace, Op("write", name, "torn")))

\* process_youtube(url, prompt, force, query_gemini_llm) is called; the
\* identifier is extracted (lines 228-231).
Call ==
    /\ pc = "idle"
    /\ budget.runs < MaxRuns
    /\ budget' = [budget EXCEPT !.runs = @ + 1]
    /\ \E url \in urls, prompt \in Prompts, force \in BOOLEAN,
          query_gemini_llm \in BOOLEAN :
        /\ args' = [url |-> url, prompt |-> prompt, force |-> force,
                    query_gemini_llm |-> query_gemini_llm]
        /\ before' = last
        /\ trace' = <<>>
        /\ LET video_id == extract_youtube_id(url)
           IN  IF video_id.none
               THEN /\ pc' = "idle"
                    /\ run' = NoLocals
                    /\ result' = ErrorResult("Could not extract video ID from URL or ID")
                    /\ last' = [status |-> "error", args |-> args', cache |-> cache]
               ELSE /\ pc' = "invalidate"
                    /\ run' = [NoLocals EXCEPT !.video_id = video_id.id]
                    /\ result' = NoResult
                    /\ UNCHANGED last
        /\ UNCHANGED <<cache, harness>>

\* Lines 240-247: the forced wipe of the entry, then mkdir.
Invalidate ==
    /\ pc = "invalidate"
    /\ \/ /\ args.force /\ cache[Dir].exists
          /\ Continue("metadata", mkdir(rmtree(cache, Dir), Dir),
                      trace \o <<Op("rmtree", "", "ok"), Op("mkdir", "", "ok")>>, run)
          /\ NoFault
       \/ /\ args.force /\ cache[Dir].exists
          /\ MayFail /\ Failed
          /\ Raise("OSError", cache, Append(trace, Op("rmtree", "", "failed")))
       \/ /\ args.force /\ cache[Dir].exists
          /\ MayFail /\ Failed
          /\ Raise("OSError", rmtree(cache, Dir),
                   trace \o <<Op("rmtree", "", "ok"), Op("mkdir", "", "failed")>>)
       \/ /\ ~(args.force /\ cache[Dir].exists)
          /\ Continue("metadata", mkdir(cache, Dir),
                      Append(trace, Op("mkdir", "", "ok")), run)
          /\ NoFault
       \/ /\ ~cache[Dir].exists
          /\ MayFail /\ Failed
          /\ Raise("OSError", cache, Append(trace, Op("mkdir", "", "failed")))

\* Lines 252-259 as they would be without the test of metadata['subtitles'].
CheckSubtitlesAlwaysContinue(m, c, tr, loc) ==
    Continue("download", c, tr, [loc EXCEPT !.metadata = <<m>>])

\* Lines 252-259: with the metadata m in hand (and the locals loc), the run
\* returns no_subtitles or goes on to the caption download.
CheckSubtitles(m, c, tr, loc) ==
    IF m.subtitles = <<>>
    THEN Return([status |-> "no_subtitles", video_id |-> run.video_id,
                 cache_dir |-> Dir, files |-> {},
                 gemini_response |-> <<>>, error |-> ""],
                c, tr, [loc EXCEPT !.metadata = <<m>>])
    ELSE Continue("download", c, tr, [loc EXCEPT !.metadata = <<m>>])

\* download_metadata_and_subtitles, lines 81-84: the cached record is read.
LoadMetadata ==
    /\ pc = "metadata"
    /\ ~args.force /\ cache[Dir].files["metadata.json"].st # "absent"
    /\ \/ /\ cache[Dir].files["metadata.json"].st = "ok"
          /\ CheckSubtitles(cache[Dir].files["metadata.json"].data[1], cache,
                            Append(trace, Op("read", "metadata.json", "ok")), run)
          /\ NoFault
       \/ /\ cache[Dir].files["metadata.json"].st = "torn"
          /\ Raise("JSONDecodeError", cache,
                   Append(trace, Op("read", "metadata.json", "ok")))
          /\ NoFault
       \/ /\ MayFail /\ Failed
          /\ Raise("OSError", cache,
                   Append(trace, Op("read", "metadata.json", "failed")))

\* download_metadata_and_subtitles, lines 86-142: the fetch and its write.
FetchMetadata ==
    /\ pc = "metadata"
    /\ args.force \/ cache[Dir].files["metadata.json"].st = "absent"
    /\ \/ /\ Raise("Failed to extract video information", cache,
                   Append(trace, Op("extract_info", "", "failed")))
          /\ NoFault
       \/ \E info \in infos :
            LET metadata == build_metadata(run.video_id, info)
                fetched == Append(trace, Op("extract_info", "", "ok"))
            IN  \/ /\ CheckSubtitles(metadata,
                                     write_file(cache, Dir, "metadata.json", metadata),
                                     Append(fetched, Op("write", "metadata.json", "ok")),
                                     [run EXCEPT !.info = <<info>>])
                   /\ NoFault
                \/ /\ MayFail /\ Failed
                   /\ Raise("Failed to extract video information", cache,
                            Append(fetched, Op("write", "metadata.json", "failed")))
                \/ /\ MayFail /\ Failed
                   /\ Raise("Failed to extract video information",
                            tear_file(cache, Dir, "metadata.json"),
                            Append(fetched, Op("write", "metadata.json", "torn")))

\* download_subtitles, lines 145-156: the caption file is fetched and saved.
DownloadSubtitles ==
    /\ pc = "download"
    /\ \/ /\ Raise("HTTPError", cache, Append(trace, Op("requests.get", "", "failed")))
          /\ NoFault
       \/ \E body \in bodies :
            LET got == Append(trace, Op("requests.get", "", "ok"))
            IN  \/ /\ Continue("flatten",
                               write_file(cache, Dir, "subtitles_raw.vtt", body),
                               Append(got, Op("write", "subtitles_raw.vtt", "ok")), run)
                   /\ NoFault
                \/ /\ MayFail /\ Failed
                   /\ Raise("OSError", cache,
                            Append(got, Op("write", "subtitles_raw.vtt", "failed")))
                \/ /\ MayFail /\ Failed
                   /\ Raise("OSError", tear_file(cache, Dir, "subtitles_raw.vtt"),
                            Append(got, Op("write", "subtitles_raw.vtt", "torn")))

\* Lines 264-266: webvtt.read of the file just written, the flattening, and
\* the write of subtitles_flat.txt.
FlattenSubtitles ==
    /\ pc = "flatten"
    /\ LET body == cache[Dir].files["subtitles_raw.vtt"].data[1]
           flattened == flatten_subtitles(body.captions)
       IN  \/ /\ ~body.parses
              /\ Raise("Failed to process subtitles", cache,
                       Append(trace, Op("webvtt.read", "subtitles_raw.vtt", "failed")))
              /\ NoFault
           \/ /\ body.parses
              /\ Save("subtitles_flat.txt", flattened, "prompt",
                      [run EXCEPT !.flattened_subtitles = flattened])

\* Lines 268-280: the prompt is resolved and saved.
SavePrompt ==
    /\ pc = "prompt"
    /\ \E prompt_file \in PromptFiles :
         LET prompt_content ==
                 IF args.prompt # <<>> THEN args.prompt[1]
                 ELSE IF prompt_file # <<>> THEN prompt_file[1]
                 ELSE BuiltinPrompt
         IN  Save("prompt.txt", prompt_content, "title",
                  [run EXCEPT !.prompt_content = prompt_content])

\* Lines 282-291: the metadata fields.
SaveTitle ==
    /\ pc = "title"
    /\ Save("title.txt", run.metadata[1].title, "uploader", run)

SaveUploader ==
    /\ pc = "uploader"
    /\ \/ /\ run.metadata[1].uploader # ""
          /\ Save("uploader.txt", run.metadata[1].uploader, "channel", run)
       \/ /\ run.metadata[1].uploader = ""
          /\ Continue("channel", cache, trace, run)
          /\ NoFault

SaveChannel ==
    /\ pc = "channel"
    /\ \/ /\ run.metadata[1].channel # ""
          /\ Save("channel.txt", run.metadata[1].channel, "description", run)
       \/ /\ run.metadata[1].channel = ""
          /\ Continue("description", cache, trace, run)
          /\ NoFault

SaveDescription ==
    /\ pc = "description"
    /\ Save("description.txt", run.metadata[1].description, "final", run)

\* Lines 293-298: final.txt.
SaveFinal ==
    /\ pc = "final"
    /\ LET subtitle_type ==
               IF run.metadata[1].subtitles[1].type = "human"
               THEN "Human" ELSE "Auto-generated"
           final_content ==
               generate_final_txt(run.metadata[1], run.flattened_subtitles,
                                  subtitle_type, run.prompt_content)
       IN  Save("final.txt", final_content, "gemini",
                [run EXCEPT !.final_content = final_content])

\* Lines 300-304, 307-308 as they would be without the test of
\* query_gemini_llm.
QueryGeminiUnasked ==
    /\ pc = "gemini"
    /\ NoFault
    /\ \E text \in GeminiTexts :
         Continue("save_response", cache,
                  Append(trace, Op("query_gemini", "final.txt", "ok")),
                  [run EXCEPT !.gemini_response = Generated(text)])

\* Lines 300-304, 307-308: the text-generation call, when requested.
QueryGemini ==
    /\ pc = "gemini"
    /\ NoFault
    /\ \/ /\ ~args.query_gemini_llm
          /\ Continue("return", cache, trace, run)
       \/ /\ args.query_gemini_llm
          /\ \E text \in GeminiTexts :
               Continue("save_response", cache,
                        Append(trace, Op("query_gemini", "final.txt", "ok")),
                        [run EXCEPT !.gemini_response = Generated(text)])
       \/ /\ args.query_gemini_llm
          /\ Continue("save_diagnostic", cache,
                      Append(trace, Op("query_gemini", "final.txt", "failed")),
                      [run EXCEPT !.gemini_response = Diagnostic("GenerationError")])

\* Line 306, inside the try block: a failure of this write is caught by the
\* except clause of line 307 like a failure of the call.
SaveResponse ==
    /\ pc = "save_response"
    /\ \/ /\ Continue("return",
                      write_file(cache, Dir, "gemini_response.txt", run.gemini_response),
                      Append(trace, Op("write", "gemini_response.txt", "ok")), run)
          /\ NoFault
       \/ /\ MayFail /\ Failed
          /\ Continue("save_diagnostic", cache,
                      Append(trace, Op("write", "gemini_response.txt", "failed")),
                      [run EXCEPT !.gemini_response = Diagnostic("OSError")])
       \/ /\ MayFail /\ Failed
          /\ Continue("save_diagnostic", tear_file(cache, Dir, "gemini_response.txt"),
                      Append(trace, Op("write", "gemini_response.txt", "torn")),
                      [run EXCEPT !.gemini_response = Diagnostic("OSError")])

\* The except clause as it would be without the write of line 309.
SaveDiagnosticSkipped ==
    /\ pc = "save_diagnostic"
    /\ Continue("return", cache, trace, run)
    /\ NoFault

\* Line 309, in the except clause: the diagnostic is saved.
SaveDiagnostic ==
    /\ pc = "save_diagnostic"
    /\ Save("gemini_response.txt", run.gemini_response, "return", run)

\* The key -> file map of the success result (lines 312-328).
ResultFile(key, name) == [key |-> key, dir |-> Dir, name |-> name]

\* The map as it would be if the uploader key were always set.
result_files_with_uploader ==
    { ResultFile("title", "title.txt"), ResultFile("description", "description.txt"),
      ResultFile("subtitles_raw", "subtitles_raw.vtt"),
      ResultFile("subtitles_flat", "subtitles_flat.txt"),
      ResultFile("final", "final.txt"), ResultFile("prompt", "prompt.txt"),
      ResultFile("uploader", "uploader.txt") }
    \cup (IF args.query_gemini_llm
          THEN {ResultFile("gemini_response", "gemini_response.txt")} ELSE {})
    \cup (IF run.metadata[1].channel # ""
          THEN {ResultFile("channel", "channel.txt")} ELSE {})

result_files ==
    { ResultFile("title", "title.txt"), ResultFile("description", "description.txt"),
      ResultFile("subtitles_raw", "subtitles_raw.vtt"),
      ResultFile("subtitles_flat", "subtitles_flat.txt"),
      ResultFile("final", "final.txt"), ResultFile("prompt", "prompt.txt") }
    \cup (IF args.query_gemini_llm
          THEN {ResultFile("gemini_response", "gemini_response.txt")} ELSE {})
    \cup (IF run.metadata[1].uploader # ""
          THEN {ResultFile("uploader", "uploader.txt")} ELSE {})
    \cup (IF run.metadata[1].channel # ""
          THEN {ResultFile("channel", "channel.txt")} ELSE {})

\* Lines 311-340: the success result.
ReturnSuccess ==
    /\ pc = "return"
    /\ NoFault
    /\ Return([status |-> "success", video_id |-> run.video_id, cache_dir |-> Dir,
               files |-> result_files,
               gemini_response |-> IF args.query_gemini_llm
                                   THEN <<run.gemini_response>> ELSE <<>>,
               error |-> ""], cache, trace, run)

Next ==
    \/ Call \/ Invalidate \/ LoadMetadata \/ FetchMetadata \/ DownloadSubtitles
    \/ FlattenSubtitles \/ SavePrompt \/ SaveTitle \/ SaveUploader \/ SaveChannel
    \/ SaveDescription \/ SaveFinal \/ QueryGemini \/ SaveResponse
    \/ SaveDiagnostic \/ ReturnSuccess

Spec == Init /\ [][Next]_vars

\* The same runs, the callers passing the strings of AcceptedUrls: every one
\* of them is accepted by extract_youtube_id.
AcceptedInit ==
    /\ cues = <<>> /\ flat = NotFlattened
    /\ value = <<>> /\ extracted = NotExtracted
    /\ shell = NotExited
    /\ urls = AcceptedUrls
    /\ infos = Infos
    /\ bodies = Payloads
    /\ cache = [d \in CacheDirs |-> NoDir]
    /\ pc = "idle" /\ args = NoArgs /\ run = NoLocals /\ result = NoResult
    /\ trace = <<>> /\ last = NoRun /\ before = NoRun
    /\ budget = [runs |-> 0, faults |-> 0]

AcceptedSpec == AcceptedInit /\ [][Next]_vars

\* The same runs, extract_info returning the info dicts of TrackInfos and
\* requests.get the caption file of two cues or the one webvtt cannot parse.
TracksInit ==
    /\ cues = <<>> /\ flat = NotFlattened
    /\ value = <<>> /\ extracted = NotExtracted
    /\ shell = NotExited
    /\ urls = PipelineUrls
    /\ infos = TrackInfos
    /\ bodies = {body \in Payloads : Len(body.captions) # 1}
    /\ cache = [d \in CacheDirs |-> NoDir]
    /\ pc = "idle" /\ args = NoArgs /\ run = NoLocals /\ result = NoResult
    /\ trace = <<>> /\ last = NoRun /\ before = NoRun
    /\ budget = [runs |-> 0, faults |-> 0]

TracksSpec == TracksInit /\ [][Next]_vars

----------------------------------------------------------------------------
(* The flattener on its own: every caption track of at most MaxCues cues,  *)
(* each cue of up to two physical lines, the first drawn from CaptionLines *)
(* and the second from SecondLines.                                        *)

MaxCues == 2

\* " a ", " ", "&amp;", "&", "&#1;", "&#32;", "&amp;amp;"
CaptionLines ==
    { <<32, 97, 32>>, <<32>>, <<38, 97, 109, 112, 59>>, <<38>>,
      <<38, 35, 49, 59>>, <<38, 35, 51, 50, 59>>,
      <<38, 97, 109, 112, 59, 97, 109, 112, 59>> }

\* " a ", "&", "&#1;"
SecondLines == { <<32, 97, 32>>, <<38>>, <<38, 35, 49, 59>> }

\* caption.text of a cue: its physical lines joined by '\n'.
CaptionTexts ==
    {<<>>} \cup CaptionLines
    \cup {join_nl(<<ls[1], ls[2]>>) : ls \in CaptionLines \X SecondLines}

CaptionTracks == UNION {[1..n -> CaptionTexts] : n \in 0..MaxCues}

FlattenInit ==
    /\ cues \in CaptionTracks
    /\ flat = NotFlattened
    /\ value = <<>> /\ extracted = NotExtracted
    /\ shell = NotExited
    /\ PipelineIdle

\* flatten_subtitles(vtt_file) on the parsed captions.
Flatten ==
    /\ ~flat.done
    /\ flat' = [done |-> TRUE, lines |-> flattened_lines(cues),
                text |-> flatten_subtitles(cues)]
    /\ UNCHANGED <<cues, value, extracted, shell, urls, infos, bodies, cache,
                   pc, args, run, result, trace, last, before, budget>>

FlattenNext == Flatten

FlattenSpec == FlattenInit /\ [][FlattenNext]_vars

----------------------------------------------------------------------------
(* The identifier extractor on its own: lines 228-231 of process_youtube   *)
(* applied to every string of ExtractInputs.                               *)

\* "https://www.youtube.com/watch?v="
P_watch ==
    <<104, 116, 116, 112, 115, 58, 47, 47, 119, 119, 119, 46, 121, 111, 117,
      116, 117, 98, 101, 46, 99, 111, 109, 47, 119, 97, 116, 99, 104, 63,
      118, 61>>

\* "https://youtube.com/watch?v="
P_watch_bare_host ==
    <<104, 116, 116, 112, 115, 58, 47, 47, 121, 111, 117, 116, 117, 98, 101,
      46, 99, 111, 109, 47, 119, 97, 116, 99, 104, 63, 118, 61>>

\* "https://www.youtube.com/embed/"
P_embed ==
    <<104, 116, 116, 112, 115, 58, 47, 47, 119, 119, 119, 46, 121, 111, 117,
      116, 117, 98, 101, 46, 99, 111, 109, 47, 101, 109, 98, 101, 100, 47>>

\* "https://www.youtube.com/shorts/"
P_shorts ==
    <<104, 116, 116, 112, 115, 58, 47, 47, 119, 119, 119, 46, 121, 111, 117,
      116, 117, 98, 101, 46, 99, 111, 109, 47, 115, 104, 111, 114, 116, 115,
      47>>

\* "https://example.com/watch?v="
P_unrelated_watch ==
    <<104, 116, 116, 112, 115, 58, 47, 47, 101, 120, 97, 109, 112, 108, 101,
      46, 99, 111, 109, 47, 119, 97, 116, 99, 104, 63, 118, 61>>

\* "https://vimeo.com/"
P_unrelated ==
    <<104, 116, 116, 112, 115, 58, 47, 47, 118, 105, 109, 101, 111, 46, 99,
      111, 109, 47>>

\* "&t=1"
S_and_t ==
    <<38, 116, 61, 49>>

\* "a_b-C1d2E3f"
S_other_id ==
    <<97, 95, 98, 45, 67, 49, 100, 50, 69, 51, 102>>

\* "dQw4w9WgXc"
S_ten ==
    <<100, 81, 119, 52, 119, 57, 87, 103, 88, 99>>

\* "dQw4w9WgXcQQ"
S_twelve ==
    <<100, 81, 119, 52, 119, 57, 87, 103, 88, 99, 81, 81>>

\* "abc"
S_three ==
    <<97, 98, 99>>

\* "dQw4w9WgX!Q"
S_bad_char ==
    <<100, 81, 119, 52, 119, 57, 87, 103, 88, 33, 81>>

\* Identifier candidates: two well-formed ones, and a 10-character, a
\* 12-character, a 3-character, an empty and an ill-spelt one.
WellFormedIds == {S_canonical_id, S_other_id}
IllFormedIds == {S_ten, S_twelve, S_three, <<>>, S_bad_char}
IdCandidates == WellFormedIds \cup IllFormedIds

\* The accepted forms of a reference to the video id.
BareForm(id) == id
WatchForm(id) == P_watch \o id
ShortLinkForm(id) == P_short_link \o id
EmbedForm(id) == P_embed \o id
ShortsForm(id) == P_shorts \o id
CanonicalForms(id) ==
    {BareForm(id), WatchForm(id), ShortLinkForm(id), EmbedForm(id), ShortsForm(id)}

\* Variations of them, and URLs of other hosts.
OtherForms(id) ==
    { <<32>> \o id \o <<10>>, P_watch \o id \o S_and_t, P_watch_bare_host \o id }
UnrelatedForms(id) == {P_unrelated_watch \o id, P_unrelated \o id}

ExtractInputs ==
    {<<>>, S_not_a_url}
    \cup UNION {CanonicalForms(id) \cup OtherForms(id) \cup UnrelatedForms(id) :
                  id \in IdCandidates}

ExtractInit ==
    /\ value \in ExtractInputs
    /\ extracted = NotExtracted
    /\ cues = <<>> /\ flat = NotFlattened
    /\ shell = NotExited
    /\ PipelineIdle

\* Lines 228-231: video_id = extract_youtube_id(url), and the ValueError
\* raised when it is None.
Extract ==
    /\ ~extracted.done
    /\ extracted' = [done |-> TRUE, id |-> extract_youtube_id(value).id,
                     none |-> extract_youtube_id(value).none,
                     raised |-> extract_youtube_id(value).none]
    /\ UNCHANGED <<cues, flat, value, shell, urls, infos, bodies, cache, pc,
                   args, run, result, trace, last, before, budget>>

ExtractNext == Extract

ExtractSpec == ExtractInit /\ [][ExtractNext]_vars

----------------------------------------------------------------------------
(* The command-line shell (ytprep_cli.py) on its own: main() from the       *)
(* result process_youtube returned to the exit code.                       *)

\* The messages of the error outcomes of the runs modelled.
ErrorMessages ==
    { "Could not extract video ID from URL or ID", "OSError", "JSONDecodeError",
      "Failed to extract video information", "HTTPError",
      "Failed to process subtitles" }

\* The results process_youtube hands to main(): error with a message,
\* no_subtitles, and success without generated text, with a generated text
\* or with a diagnostic.
ShellResults ==
    {ErrorResult(msg) : msg \in ErrorMessages}
    \cup {[status |-> "no_subtitles", video_id |-> S_canonical_id,
           cache_dir |-> cache_dir_of(S_canonical_id), files |-> {},
           gemini_response |-> <<>>, error |-> ""]}
    \cup {[status |-> "success", video_id |-> S_canonical_id,
           cache_dir |-> cache_dir_of(S_canonical_id),
           files |-> {[key |-> "final", dir |-> cache_dir_of(S_canonical_id),
                       name |-> "final.txt"]},
           gemini_response |-> g, error |-> ""] :
          g \in {<<>>, <<NoResponse>>, <<Diagnostic("GenerationError")>>,
                 <<Diagnostic("OSError")>>}
                \cup {<<Generated(text)>> : text \in GeminiTexts}}

\* What open(result['files']['final']) of line 62 meets: the file ("ok"), no
\* file (FileNotFoundError) or a file it may not read (another OSError).
FinalFileStates == {"ok", "missing", "unreadable"}

\* The exit code of main() without the branch of lines 90-92.
exit_code_without_no_subtitles(res, verbose, final) ==
    IF res.status = "success"
    THEN IF verbose /\ final # "ok" THEN 1 ELSE 0
    ELSE 1

\* Lines 53-97: the exit code of main(). In verbose mode a missing final.txt
\* is caught (lines 86-88, exit 1) and any other failure of the read escapes
\* main(), which ends the interpreter with code 1 too.
exit_code(res, verbose, final) ==
    IF res.status = "success"
    THEN IF verbose /\ final # "ok" THEN 1 ELSE 0
    ELSE IF res.status = "no_subtitles" THEN 2
    ELSE 1

ShellInit ==
    /\ result \in ShellResults
    /\ shell \in {[done |-> FALSE, verbose |-> v, final |-> f, code |-> 0] :
                  v \in BOOLEAN, f \in FinalFileStates}
    /\ cues = <<>> /\ flat = NotFlattened
    /\ value = <<>> /\ extracted = NotExtracted
    /\ urls = PipelineUrls
    /\ infos = Infos
    /\ bodies = Payloads
    /\ cache = [d \in CacheDirs |-> NoDir]
    /\ pc = "idle" /\ args = NoArgs /\ run = NoLocals /\ trace = <<>>
    /\ last = NoRun /\ before = NoRun
    /\ budget = [runs |-> 0, faults |-> 0]

\* main(), after process_youtube has returned.
Main ==
    /\ ~shell.done
    /\ shell' = [shell EXCEPT !.done = TRUE,
                              !.code = exit_code(result, shell.verbose, shell.final)]
    /\ UNCHANGED <<cues, flat, value, extracted, urls, infos, bodies, cache,
                   pc, args, run, result, trace, last, before, budget>>

ShellNext == Main

ShellSpec == ShellInit /\ [][ShellNext]_vars

----------------------------------------------------------------------------
(* Properties of the flattener, under FlattenSpec.                         *)

\* C1: for every cue sequence, the line sequence flatten_subtitles produces
\* holds no two adjacent equal lines and no empty line.
C1_NoAdjacentEqualNoEmptyLine ==
    flat.done =>
        /\ \A i \in 1..(Len(flat.lines) - 1) : flat.lines[i] # flat.lines[i + 1]
        /\ \A i \in 1..Len(flat.lines) : flat.lines[i] # <<>>

\* The reference transcript of a cue sequence: the physical lines of all cues
\* in order, each trimmed, the blank ones dropped, each decoded, and every run
\* of equal adjacent decoded lines collapsed to one occurrence.
RECURSIVE PhysicalLines(_)
PhysicalLines(captions) ==
    IF captions = <<>> THEN <<>>
    ELSE splitlines(Head(captions)) \o PhysicalLines(Tail(captions))

Trimmed(ls) == [i \in 1..Len(ls) |-> strip(ls[i])]
NonBlank(ls) == SelectSeq(ls, LAMBDA l : l # <<>>)
Decoded(ls) == [i \in 1..Len(ls) |-> unescape(ls[i])]

RECURSIVE Collapsed(_)
Collapsed(ls) ==
    IF Len(ls) <= 1 THEN ls
    ELSE IF ls[Len(ls)] = ls[Len(ls) - 1] THEN Collapsed(SubSeq(ls, 1, Len(ls) - 1))
    ELSE Append(Collapsed(SubSeq(ls, 1, Len(ls) - 1)), ls[Len(ls)])

ReferenceTranscript(captions) ==
    Collapsed(Decoded(NonBlank(Trimmed(PhysicalLines(captions)))))

\* C2: for every cue sequence, flatten_subtitles returns exactly the reference
\* transcript (lines in input order, trimmed, blank ones dropped, decoded,
\* adjacent repeats of the decoded text collapsed, later repeats kept), joined
\* by line feeds.
C2_FlattenIsReferenceTranscript ==
    flat.done =>
        /\ flat.lines = ReferenceTranscript(cues)
        /\ flat.text = join_nl(ReferenceTranscript(cues))

\* "&amp;" then "&" collapse to the one line "&"; in "&" / " a " / "&" the
\* later repeat is kept.
C2_Witness ==
    /\ flat.done
    /\ \/ /\ cues = << <<38, 97, 109, 112, 59>>, <<38>> >>
          /\ flat.lines = << <<38>> >>
       \/ /\ cues = << <<38, 10, 32, 97, 32>>, <<38>> >>
          /\ flat.lines = << <<38>>, <<97>>, <<38>> >>

\* The transcript as it is when every line is decoded and then trimmed, the
\* lines blank after decoding are dropped without becoming the previous line,
\* and adjacent repeats are collapsed.
TrimmedAfterDecoding(captions) ==
    Collapsed(NonBlank(Trimmed(Decoded(NonBlank(Trimmed(PhysicalLines(captions)))))))

\* C14: a caption line made only of entities that decode to whitespace or to
\* nothing is treated as a blank line (not appended, previous_line unchanged),
\* and every line of the flattened transcript is whitespace-trimmed after
\* decoding.
C14_LinesTrimmedAfterDecoding ==
    flat.done =>
        /\ \A i \in 1..Len(flat.lines) : strip(flat.lines[i]) = flat.lines[i]
        /\ flat.lines = TrimmedAfterDecoding(cues)

\* The cue "&#32;": the transcript holds the one line " ".
C14_Witness ==
    /\ flat.done
    /\ cues = << <<38, 35, 51, 50, 59>> >>
    /\ flat.lines = << <<32>> >>

\* C19: entity decoding as the flattener applies it is idempotent: decoding
\* a line of the transcript again yields the same line, and the flattener run
\* over its own output lines returns them unchanged and in the same order.
C19_DecodingIdempotent ==
    flat.done =>
        /\ \A i \in 1..Len(flat.lines) : unescape(flat.lines[i]) = flat.lines[i]
        /\ flattened_lines(flat.lines) = flat.lines

\* The cue "&amp;amp;": its transcript is the line "&amp;", which the
\* flattener turns into "&".
C19_Witness ==
    /\ flat.done
    /\ cues = << <<38, 97, 109, 112, 59, 97, 109, 112, 59>> >>
    /\ flat.lines = << <<38, 97, 109, 112, 59>> >>
    /\ flattened_lines(flat.lines) = << <<38>> >>

----------------------------------------------------------------------------
(* Properties of the identifier extractor, under ExtractSpec.              *)

\* The inputs that are neither a bare identifier nor an accepted URL form
\* carrying one: the empty string, "not a url", every accepted form around an
\* ill-formed identifier, and every URL of another host.
Malformed ==
    {<<>>, S_not_a_url}
    \cup UNION {CanonicalForms(id) : id \in IllFormedIds}
    \cup UNION {UnrelatedForms(id) : id \in IdCandidates}

\* C3: for every malformed input extract_youtube_id returns None and
\* process_youtube takes its error exit; and whatever extract_youtube_id
\* returns is an identifier of exactly 11 characters of [A-Za-z0-9_-].
C3_MalformedRefusedIdsWellFormed ==
    extracted.done =>
        /\ value \in Malformed => extracted.none /\ extracted.raised
        /\ ~extracted.none => IsBareId(extracted.id)

\* C10: for a well-formed 11-character identifier, extract_youtube_id returns
\* it unchanged from the bare identifier and from its watch?v=, youtu.be,
\* embed and shorts URLs.
C10_CanonicalFormsResolve ==
    extracted.done =>
        \A id \in WellFormedIds :
            value \in CanonicalForms(id) =>
                ~extracted.none /\ ~extracted.raised /\ extracted.id = id

C10_Witness ==
    /\ extracted.done
    /\ value = ShortsForm(S_canonical_id)
    /\ extracted.id = S_canonical_id /\ ~extracted.none

----------------------------------------------------------------------------
(* Properties of process_youtube, under Spec.                              *)

\* A run has returned, and no other has been started since.
Returned == pc = "idle" /\ result.status # "none"

TraceOps == 1..Len(trace)
NetworkCall(i) == trace[i].op \in {"extract_info", "requests.get"}
WrittenByThisRun(f) ==
    \E i \in TraceOps : trace[i].op = "write" /\ trace[i].file = f
                        /\ trace[i].outcome = "ok"

\* The run in progress (or just returned) is not forced and follows a run on
\* the same identifier that was not forced and returned success.
OnCachedEntry ==
    /\ before.status = "success" /\ ~before.args.force
    /\ pc # "idle" \/ Returned
    /\ ~args.force
    /\ extract_youtube_id(args.url) = extract_youtube_id(before.args.url)

\* C4: a non-forced run on an identifier whose entry a non-forced successful
\* run has filled makes no network call: neither the metadata fetcher nor the
\* caption download is invoked.
C4_NoNetworkCallOnCachedEntry ==
    OnCachedEntry => \A i \in TraceOps : ~NetworkCall(i)

\* No operation of the run has failed.
NothingFailed == \A i \in TraceOps : trace[i].outcome = "ok"

\* C5: a non-forced run with the same options as the non-forced successful
\* run before it leaves every file of the entry as that run left it, whatever
\* the remote services return (stated for the runs in which nothing fails).
C5_SecondRunLeavesArtifactsIdentical ==
    (OnCachedEntry /\ Returned /\ args = before.args /\ NothingFailed) =>
        cache[Dir].files = before.cache[Dir].files

\* C6: a forced run, whatever the entry held, wipes the entry before any
\* cache read, calls the metadata fetcher and the caption download afresh, and
\* on return every file present in the entry was written by this run (stated
\* for the runs in which nothing fails).
C6_ForcedRunRefetchesAndReplaces ==
    (Returned /\ args.force /\ ~extract_youtube_id(args.url).none /\ NothingFailed) =>
        /\ \A i \in TraceOps : trace[i].op # "read"
        /\ \E i \in TraceOps : trace[i].op = "extract_info"
        /\ \E i \in TraceOps : trace[i].op = "requests.get"
        /\ \A f \in Present(cache, Dir) : WrittenByThisRun(f)

\* C6, as the code has it: a forced run never reads the cache and begins by
\* deleting the entry when there is one; if the deletion fails the run
\* returns error having done nothing else (the earlier files may remain);
\* otherwise, once the directory is re-created the metadata fetcher is
\* called, the caption download is called exactly when the fetched metadata
\* carries a caption reference, and on return every file present in the
\* entry was written, completely or in part, by this run.
C6_ForcedRunWipesThenRefetches ==
    (Returned /\ args.force /\ ~extract_youtube_id(args.url).none) =>
        /\ \A i \in TraceOps : trace[i].op # "read"
        /\ before.cache[Dir].exists => trace[1].op = "rmtree"
        /\ trace[1] = Op("rmtree", "", "failed") =>
               result.status = "error" /\ Len(trace) = 1
        /\ (\E i \in TraceOps : trace[i] = Op("mkdir", "", "ok")) =>
               \E i \in TraceOps : trace[i].op = "extract_info"
        /\ (\E i \in TraceOps : trace[i].op = "requests.get")
               <=> (run.metadata # <<>> /\ run.metadata[1].subtitles # <<>>)
        /\ trace[1] # Op("rmtree", "", "failed") =>
               \A f \in Present(cache, Dir) :
                   \E i \in TraceOps : /\ trace[i].op = "write" /\ trace[i].file = f
                                       /\ trace[i].outcome \in {"ok", "torn"}

\* A forced run returns success on an entry an earlier run had left with a
\* truncated file.
C6_Witness ==
    /\ Returned /\ args.force /\ result.status = "success"
    /\ \E f \in FileNames : before.cache[Dir].files[f].st = "torn"
    /\ trace[1] = Op("rmtree", "", "ok")

\* The text-generation call of the run failed.
GenerationFailed ==
    \E i \in TraceOps : trace[i] = Op("query_gemini", "final.txt", "failed")

\* The artifacts of steps 1-9 are in the entry with the content the run holds.
ArtifactsOfStepsPresent ==
    LET files == cache[Dir].files
        metadata == run.metadata[1]
    IN  /\ files["metadata.json"] = Written(metadata)
        /\ files["subtitles_raw.vtt"].st = "ok"
        /\ flatten_subtitles(files["subtitles_raw.vtt"].data[1].captions)
               = run.flattened_subtitles
        /\ files["subtitles_flat.txt"] = Written(run.flattened_subtitles)
        /\ files["prompt.txt"] = Written(run.prompt_content)
        /\ files["title.txt"] = Written(metadata.title)
        /\ metadata.uploader # "" => files["uploader.txt"] = Written(metadata.uploader)
        /\ metadata.channel # "" => files["channel.txt"] = Written(metadata.channel)
        /\ files["description.txt"] = Written(metadata.description)
        /\ files["final.txt"] = Written(run.final_content)

DiagnosticReturnedAndPersisted ==
    /\ result.status = "success"
    /\ result.gemini_response = <<run.gemini_response>>
    /\ run.gemini_response.kind = "Error querying Gemini: "
    /\ cache[Dir].files["gemini_response.txt"] = Written(run.gemini_response)
    /\ ArtifactsOfStepsPresent

\* C7: when the text-generation call fails in a run that requested it (the
\* steps before it having succeeded), process_youtube returns success, the
\* generated-text field holds a diagnostic, the same text is in
\* gemini_response.txt, and the artifacts of the earlier steps are present
\* with the content those steps wrote.
C7_FailedGenerationYieldsSuccess ==
    (Returned /\ GenerationFailed) => DiagnosticReturnedAndPersisted

\* C7, as the code has it: the same, provided no write of the run failed;
\* when the write of the diagnostic fails the run returns error.
C7_FailedGenerationYieldsSuccessIfSaved ==
    (Returned /\ GenerationFailed) =>
        IF \A i \in TraceOps : trace[i].op = "write" => trace[i].outcome = "ok"
        THEN DiagnosticReturnedAndPersisted
        ELSE /\ result.status = "error"
             /\ trace[Len(trace)].file = "gemini_response.txt"
             /\ trace[Len(trace)].outcome \in {"failed", "torn"}

C7_Witness ==
    /\ Returned /\ GenerationFailed /\ result.status = "success"
    /\ cache[Dir].files["gemini_response.txt"]
           = Written(Diagnostic("GenerationError"))

\* A failure the run must not survive: of the metadata fetch, the caption
\* download, caption parsing, or a cache write, read or delete.
FailedOp(i) ==
    trace[i].outcome \in {"failed", "torn"} /\ trace[i].op # "query_gemini"

\* C8: every failure of identifier resolution, of the metadata fetch, of the
\* caption download, of caption parsing or of a cache write or delete makes
\* process_youtube return error with a message, never success, and no failed
\* operation is attempted a second time within the run.
C8_FailuresAbortWithoutRetry ==
    /\ (Returned /\ extract_youtube_id(args.url).none) =>
           result.status = "error" /\ result.error # ""
    /\ (Returned /\ \E i \in TraceOps : FailedOp(i)) =>
           result.status = "error" /\ result.error # ""
    /\ \A i, j \in TraceOps :
           (i < j /\ FailedOp(i)) =>
               ~(trace[j].op = trace[i].op /\ trace[j].file = trace[i].file)

\* C9: when the resolved metadata carries no caption reference the run has
\* returned no_subtitles with an empty artifact map, the metadata record is
\* in the entry, and the run made no caption download, wrote nothing but the
\* metadata record and did not call the text-generation client.
C9_NoSubtitlesStopsAfterMetadata ==
    (run.metadata # <<>> /\ run.metadata[1].subtitles = <<>>) =>
        /\ Returned
        /\ result.status = "no_subtitles" /\ result.files = {}
        /\ cache[Dir].files["metadata.json"] = Written(run.metadata[1])
        /\ \A i \in TraceOps :
               /\ trace[i].op \notin {"requests.get", "query_gemini"}
               /\ trace[i].op = "write" => trace[i].file = "metadata.json"

C9_Witness ==
    /\ result.status = "no_subtitles"
    /\ \E i \in TraceOps : trace[i] = Op("extract_info", "", "ok")
    /\ Present(cache, Dir) = {"metadata.json"}

\* The position of a step in the run.
StepRank ==
    [p \in {"idle", "invalidate", "metadata", "download", "flatten", "prompt",
            "title", "uploader", "channel", "description", "final", "gemini",
            "save_response", "save_diagnostic", "return"} |->
        CASE p = "idle" -> 0 [] p = "invalidate" -> 1 [] p = "metadata" -> 2
          [] p = "download" -> 3 [] p = "flatten" -> 4 [] p = "prompt" -> 5
          [] p = "title" -> 6 [] p = "uploader" -> 7 [] p = "channel" -> 8
          [] p = "description" -> 9 [] p = "final" -> 10 [] p = "gemini" -> 11
          [] p = "save_response" -> 12 [] p = "save_diagnostic" -> 13
          [] p = "return" -> 14]

\* An exception was raised in steps 1-9: a failed fetch, download, parse or
\* cache operation before the text-generation call, or an unreadable cached
\* metadata record.
RaisedInSteps ==
    \/ \E i \in TraceOps : FailedOp(i) /\ trace[i].file # "gemini_response.txt"
    \/ /\ Returned /\ Len(trace) > 0
       /\ trace[Len(trace)] = Op("read", "metadata.json", "ok")
       /\ cache[Dir].files["metadata.json"].st = "torn"

\* What a returned run handed back.
OutcomeWellFormed ==
    /\ result.status \in {"success", "no_subtitles", "error"}
    /\ result.status = "error" =>
           result.video_id = <<>> /\ result.files = {} /\ result.error # ""
    /\ result.status # "success" =>
           result.files = {} /\ result.gemini_response = <<>>

\* A run in progress can take a step: the flattening step whenever the raw
\* caption file is there to be read (whether it parses or not), any other
\* step by its own guards.
StepAfterCall ==
    \/ Invalidate \/ LoadMetadata \/ FetchMetadata \/ DownloadSubtitles
    \/ SavePrompt \/ SaveTitle \/ SaveUploader \/ SaveChannel \/ SaveDescription
    \/ SaveFinal \/ QueryGemini \/ SaveResponse \/ SaveDiagnostic \/ ReturnSuccess

CanStep ==
    IF pc = "flatten" THEN cache[Dir].files["subtitles_raw.vtt"].st = "ok"
    ELSE ENABLED StepAfterCall

\* A run in progress can take a step, an exception of steps 1-9 has ended the
\* run in error, and a run ended in error was not ended by the exception of
\* the text-generation call.
RunEndsProperly ==
    /\ pc # "idle" => CanStep
    /\ Returned => OutcomeWellFormed
    /\ RaisedInSteps => Returned /\ result.status = "error"
    /\ (Returned /\ result.status = "error" /\ Len(trace) > 0) =>
           trace[Len(trace)].op # "query_gemini"

\* C11: every run whose external calls return ends, in exactly one of
\* success, no_subtitles and error (each step of a run leads to a later step
\* or to the return, and a run in progress can always step); an error outcome
\* carries an empty identifier, an empty artifact map and a message; only
\* success carries artifact paths or generated text; an exception of steps
\* 1-9 ends the run in error, the exception of the text-generation call does
\* not end the run.
C11_RunsEndInOneOutcome ==
    /\ []RunEndsProperly
    /\ [][/\ pc # "idle" => (pc' = "idle" \/ StepRank[pc'] > StepRank[pc])
          /\ pc = "gemini" => pc' # "idle"]_vars

\* A run ended in error by a caption file that does not parse.
C11_Witness ==
    /\ Returned /\ Len(trace) > 0
    /\ result.status = "error"
    /\ trace[Len(trace)] = Op("webvtt.read", "subtitles_raw.vtt", "failed")

----------------------------------------------------------------------------
(* Properties of the command-line shell, under ShellSpec.                  *)

\* C12: the shell exits with code 0 whenever process_youtube returned
\* success (with a generated text or a diagnostic alike), with 2 whenever it
\* returned no_subtitles and with 1 whenever it returned error, in verbose
\* and non-verbose mode alike.
C12_ExitCodeFollowsStatus ==
    shell.done =>
        /\ result.status = "success" => shell.code = 0
        /\ result.status = "no_subtitles" => shell.code = 2
        /\ result.status = "error" => shell.code = 1

\* C12, as the code has it: the same, except that in verbose mode a success
\* whose final.txt cannot be read back exits with code 1.
C12_ExitCodeFollowsStatusAndRead ==
    shell.done =>
        /\ result.status = "success" =>
               shell.code = IF shell.verbose /\ shell.final # "ok" THEN 1 ELSE 0
        /\ result.status = "no_subtitles" => shell.code = 2
        /\ result.status = "error" => shell.code = 1

\* A success carrying a diagnostic exits with 0, in verbose mode.
C12_Witness ==
    /\ shell.done /\ shell.verbose /\ shell.code = 0
    /\ result.status = "success"
    /\ result.gemini_response = <<Diagnostic("GenerationError")>>

-----------------------------------------------------------------------------
(* Properties of the runs on every accepted string (AcceptedSpec).         *)

\* The run in progress, or the one that just returned, was given a string
\* that extract_youtube_id accepts.
OnAcceptedString ==
    /\ pc # "idle" \/ Returned
    /\ ~extract_youtube_id(args.url).none

\* C13: every file a run creates, overwrites or deletes lies inside the
\* subdirectory of the cache root named by the run's identifier, for every
\* string the extractor accepts: the run's directory is a proper subdirectory
\* of the root, the entries of all other identifiers are as they were when the
\* run was called, and so are the files directly in the cache root (stated
\* for the runs in which nothing fails).
C13_RunStaysInsideItsEntry ==
    (OnAcceptedString /\ NothingFailed) =>
        /\ Dir # Root
        /\ \A d \in CacheDirs \ {Dir, Root} : cache[d] = before.cache[d]
        /\ cache[Root].files = before.cache[Root].files

\* The run on the short link without a path that was forced: it returned
\* and an entry that another identifier's run had filled is gone.
C13_Witness ==
    /\ Returned /\ args.url = P_short_link /\ args.force
    /\ \E d \in CacheDirs \ {Root} :
          before.cache[d].exists /\ ~cache[d].exists

-----------------------------------------------------------------------------
(* Properties of the choice of the caption track (TracksSpec).             *)

\* The info dict this run fetched and persisted as metadata.json.
Fetched == run.info # <<>>
HasEntries(track) == track # <<>> /\ Len(track[1]) > 0
HumanTrack == run.info[1].subtitles
AutoTrack == run.info[1].automatic_captions

\* C15: no_subtitles is returned only for a video without a usable English
\* track: whenever the fetched info carries a non-empty English entry list
\* under human subtitles or under automatic captions, the persisted metadata
\* carries a caption reference and the run does not end in no_subtitles.
C15_NoSubtitlesOnlyWithoutEnglishTrack ==
    (Fetched /\ (HasEntries(HumanTrack) \/ HasEntries(AutoTrack))) =>
        /\ run.metadata[1].subtitles # <<>>
        /\ result.status # "no_subtitles"

\* The run that fetched an empty human list beside an automatic track and
\* returned no_subtitles.
C15_Witness ==
    /\ Returned /\ result.status = "no_subtitles"
    /\ Fetched /\ HumanTrack = << <<>> >> /\ HasEntries(AutoTrack)

\* C16: when the fetched info carries a human and an automatic English track,
\* each with at least one entry, the caption reference of the metadata has
\* provenance human and is one of the human entries; and the entry chosen has
\* the format tag vtt whenever the chosen track holds such an entry.
C16_HumanTrackAndVttPreferred ==
    (Fetched /\ HasEntries(HumanTrack) /\ HasEntries(AutoTrack)) =>
        /\ run.metadata[1].subtitles # <<>>
        /\ LET ref == run.metadata[1].subtitles[1]
               stored == cache[Dir].files["metadata.json"]
           IN  /\ ref.type = "human"
               /\ \E i \in 1..Len(HumanTrack[1]) :
                     HumanTrack[1][i] = Entry(ref.ext, ref.url)
               /\ (\E i \in 1..Len(HumanTrack[1]) : HumanTrack[1][i].ext = "vtt")
                     => ref.ext = "vtt"
               /\ pc = "download" => stored.st = "ok" /\ stored.data[1].subtitles = <<ref>>

\* The run that fetched the human track holding json3 then vtt beside an
\* automatic track: the reference is the human vtt entry.
C16_Witness ==
    /\ Fetched /\ HasEntries(AutoTrack)
    /\ HumanTrack = << <<Entry("json3", "human.json3"), Entry("vtt", "human.vtt")>> >>
    /\ run.metadata[1].subtitles = <<CaptionRef(Entry("vtt", "human.vtt"), "human")>>

-----------------------------------------------------------------------------
(* Properties of the artifacts and of the order of the steps, under Spec.  *)

\* C17: gemini_response.txt is present in the entry only if generation was
\* requested by the most recent successful run: a successful run that did not
\* request generation leaves no gemini_response.txt, also when an earlier
\* non-forced run that requested it had written one (stated for the runs in
\* which nothing fails).
C17_ResponseFileOnlyIfRequested ==
    (Returned /\ result.status = "success" /\ ~args.query_gemini_llm
       /\ NothingFailed) =>
        cache[Dir].files["gemini_response.txt"].st = "absent"

\* The successful non-forced run without generation that follows a run with
\* generation on the same identifier: the earlier response file is still
\* there.
C17_Witness ==
    /\ Returned /\ result.status = "success"
    /\ ~args.query_gemini_llm /\ ~args.force
    /\ before.status = "success" /\ before.args.query_gemini_llm
    /\ before.args.url = args.url
    /\ cache[Dir].files["gemini_response.txt"] =
          before.cache[Dir].files["gemini_response.txt"]
    /\ cache[Dir].files["gemini_response.txt"].st = "ok"

\* The step of the run an external operation belongs to: 0 the preparation of
\* the entry, 1 the metadata, 2 the raw captions, 3 the flattened transcript,
\* 4 the prompt and the metadata fields, 5 final.txt, 6 the text-generation
\* call, 7 the file of its answer.
StepOfOp(o) ==
    IF o.op \in {"rmtree", "mkdir"} THEN 0
    ELSE IF o.op = "extract_info" \/ o.file = "metadata.json" THEN 1
    ELSE IF o.op = "requests.get" \/ (o.op = "write" /\ o.file = "subtitles_raw.vtt") THEN 2
    ELSE IF o.op = "webvtt.read" \/ o.file = "subtitles_flat.txt" THEN 3
    ELSE IF o.file \in {"prompt.txt", "title.txt", "uploader.txt", "channel.txt",
                        "description.txt"} THEN 4
    ELSE IF o.op = "write" /\ o.file = "final.txt" THEN 5
    ELSE IF o.op = "query_gemini" THEN 6
    ELSE 7

\* Step k of the run was completed before the operation at place i: one of
\* the operations that end the step succeeded.
DoneBefore(i, ops) == \E j \in 1..(i - 1) : trace[j] \in ops

GateOf(k) ==
    CASE k = 2 -> {Op("read", "metadata.json", "ok"), Op("write", "metadata.json", "ok")}
      [] k = 3 -> {Op("write", "subtitles_raw.vtt", "ok")}
      [] k = 4 -> {Op("write", "subtitles_flat.txt", "ok")}
      [] k = 5 -> {Op("write", "description.txt", "ok")}
      [] k = 6 -> {Op("write", "final.txt", "ok")}
      [] k = 7 -> {Op("query_gemini", "final.txt", "ok"),
                   Op("query_gemini", "final.txt", "failed")}

GenerationCalls == {i \in TraceOps : trace[i].op = "query_gemini"}

\* C18: within one run the operations occur in the order metadata, raw
\* captions, flattened transcript, prompt and metadata fields, final.txt,
\* generation call, each step only after the one before it was completed; the
\* text-generation client is called at most once, only when generation is
\* requested, only after final.txt was persisted and with the content final.txt
\* holds; and it is not called in a run that ends in no_subtitles or in an
\* error raised at steps 1-9.
C18_StepsInOrderGenerationLast ==
    /\ \A i \in 1..(Len(trace) - 1) : StepOfOp(trace[i]) <= StepOfOp(trace[i + 1])
    /\ \A i \in TraceOps :
          StepOfOp(trace[i]) >= 2 => DoneBefore(i, GateOf(StepOfOp(trace[i])))
    /\ Cardinality(GenerationCalls) <= 1
    /\ GenerationCalls # {} =>
          /\ args.query_gemini_llm
          /\ cache[Dir].files["final.txt"] = Written(run.final_content)
          /\ ~(Returned /\ result.status = "no_subtitles")
          /\ ~RaisedInSteps
    /\ pc \in {"save_response", "save_diagnostic"} => GenerationCalls # {}

\* The run that requested generation and returned success: the call is the
\* operation after the write of final.txt.
C18_Witness ==
    /\ Returned /\ result.status = "success" /\ args.query_gemini_llm
    /\ \E i \in TraceOps :
          /\ i > 1 /\ trace[i] = Op("query_gemini", "final.txt", "ok")
          /\ trace[i - 1] = Op("write", "final.txt", "ok")

HasKey(key) == \E f \in result.files : f.key = key

\* C20: whenever process_youtube returns success, every path of the returned
\* files map names a file of the identifier's cache entry that exists and was
\* written during this run, and the map holds the keys uploader, channel and
\* gemini_response exactly when the uploader is non-empty, the channel is
\* non-empty and generation was requested.
C20_FilesMapNamesFilesOfThisRun ==
    (Returned /\ result.status = "success") =>
        /\ \A f \in result.files :
              /\ f.dir = cache_dir_of(result.video_id)
              /\ cache[f.dir].files[f.name].st = "ok"
              /\ WrittenByThisRun(f.name)
        /\ HasKey("uploader") <=> run.metadata[1].uploader # ""
        /\ HasKey("channel") <=> run.metadata[1].channel # ""
        /\ HasKey("gemini_response") <=> args.query_gemini_llm

\* A success without an uploader, with generation requested: the map has the
\* key gemini_response and no key uploader.
C20_Witness ==
    /\ Returned /\ result.status = "success"
    /\ run.metadata[1].uploader = "" /\ args.query_gemini_llm
    /\ HasKey("gemini_response") /\ ~HasKey("uploader")

====
